---- MODULE Spec2Model ----
(***************************************************************************)
(* Model of generate_icons.py: the driver main() and the two renderers     *)
(* create_app_icon and create_menubar_icon.                                *)
(*                                                                         *)
(* Three specifications share the variables:                               *)
(*   Spec        main() stepping through its I/O operations, each of which *)
(*               may fail, and an optional second invocation;              *)
(*   SpecAppIcon create_app_icon(size) stepping through its drawing calls, *)
(*               followed on one sampled pixel of the canvas;              *)
(*   SpecMenubar create_menubar_icon(target_size, is_template), likewise.  *)
(* Every drawing call overwrites each pixel independently of the others,   *)
(* so following one arbitrary pixel through the calls, for every choice of *)
(* the pixel, covers the whole canvas.                                     *)
(***************************************************************************)
EXTENDS Integers, Sequences, FiniteSets, TLC

VARIABLES
    pc,            \* position of main(): the I/O operation it is about to do
    i,             \* 1-based index of the running for loop of main()
    dirs,          \* the directories that exist (paths below script_dir)
    files,         \* the files that exist: path -> <<width, height>> of the PNG
    written,       \* the paths img.save() has written in this run, in order
    out,           \* the lines print() has emitted in this run
    err,           \* the exception that ended main(), "none" if none
    run,           \* number of the current invocation of main()
    prev,          \* <<dirs, files>> as the previous run left them
    fn,            \* the renderer being followed: "app", "menubar" or "none"
    size,          \* its argument size / target_size
    is_template,   \* its argument is_template
    px, py,        \* the sampled pixel of the canvas
    pixel,         \* the RGBA value of the sampled pixel
    img,           \* the image object img: [w, h]
    rpc,           \* position inside the renderer
    stroke_width,  \* local stroke_width (0 before it is assigned)
    cap_radius,    \* local cap_radius (0 before it is assigned)
    point          \* 1-based index of the loop over the cap points, 0 outside it

driverVars == <<pc, i, dirs, files, written, out, err, run, prev>>
renderVars == <<fn, size, is_template, px, py, pixel, img, rpc, stroke_width, cap_radius, point>>
vars == <<pc, i, dirs, files, written, out, err, run, prev,
          fn, size, is_template, px, py, pixel, img, rpc, stroke_width, cap_radius, point>>

(***************************************************************************)
(* Bounds of the model.                                                    *)
(***************************************************************************)
\* main() is invoked at most this many times in a row
MaxRuns == 2
\* create_app_icon is followed for every size in 1..MaxSize, and for the sizes
\* main() passes that are at most MaxActualSize
MaxSize == 48
MaxActualSize == 256
\* create_menubar_icon is followed on every PixelStride-th pixel of each row
\* and column of its canvas, counted from the centre
PixelStride == 1

Max(a, b) == IF a >= b THEN a ELSE b
Min(a, b) == IF a <= b THEN a ELSE b
Range(s) == {s[k] : k \in DOMAIN s}

(***************************************************************************)
(* Module-level constants.                                                 *)
(***************************************************************************)
ICON_SIZES ==
    << <<16, 1>>, <<16, 2>>, <<32, 1>>, <<32, 2>>, <<64, 1>>, <<64, 2>>,
       <<128, 1>>, <<128, 2>>, <<256, 1>>, <<256, 2>>, <<512, 1>>, <<512, 2>> >>

MENUBAR_SIZES == << <<18, 1>>, <<18, 2>>, <<22, 1>>, <<22, 2>> >>

\* colour strings, as sequences of characters
RED == <<"#", "D", "C", "3", "5", "4", "5">>
WHITE == <<"#", "F", "F", "F", "F", "F", "F">>
BLACK == <<"#", "0", "0", "0", "0", "0", "0">>

\* the background Image.new() fills the canvas with, and the hole's fill
TRANSPARENT == <<0, 0, 0, 0>>

(***************************************************************************)
(* hex_to_rgb                                                              *)
(***************************************************************************)
\* int(c, 16) for one character
HexDigit(c) ==
    CASE c = "0" -> 0 [] c = "1" -> 1 [] c = "2" -> 2 [] c = "3" -> 3
      [] c = "4" -> 4 [] c = "5" -> 5 [] c = "6" -> 6 [] c = "7" -> 7
      [] c = "8" -> 8 [] c = "9" -> 9
      [] c \in {"A", "a"} -> 10 [] c \in {"B", "b"} -> 11
      [] c \in {"C", "c"} -> 12 [] c \in {"D", "d"} -> 13
      [] c \in {"E", "e"} -> 14 [] c \in {"F", "f"} -> 15

\* str.lstrip('#'): drop every leading '#'
RECURSIVE lstrip_hash(_)
lstrip_hash(s) ==
    IF s # <<>> /\ Head(s) = "#" THEN lstrip_hash(Tail(s)) ELSE s

\* int(h[k:k+2], 16), k counted from 0
HexPairBroken(h, k) == HexDigit(h[k + 1]) + HexDigit(h[k + 2])
HexPair(h, k) == 16 * HexDigit(h[k + 1]) + HexDigit(h[k + 2])

hex_to_rgb(hex_color) ==
    LET h == lstrip_hash(hex_color)
    IN  <<HexPair(h, 0), HexPair(h, 2), HexPair(h, 4)>>

\* the ink ImageDraw makes of a fill: an RGB fill is opaque, an RGBA fill is
\* taken as given
Ink(fill) == IF Len(fill) = 3 THEN fill \o <<255>> ELSE fill

(***************************************************************************)
(* Images: the part of an Image object the driver depends on is its size.  *)
(***************************************************************************)
\* Image.new('RGBA', (w, h), (0, 0, 0, 0))
NewImage(w, h) == [w |-> w, h |-> h]

\* img.resize((target_size, target_size), Image.LANCZOS)
ResizeDropped(image, target_size) == image
Resize(image, target_size) == [w |-> target_size, h |-> target_size]

render_size == 256

\* the image create_app_icon(size) returns: drawing leaves the size alone
create_app_icon(s) == NewImage(s, s)

\* the image create_menubar_icon(target_size) returns
create_menubar_icon(target_size) ==
    Resize(NewImage(render_size, render_size), target_size)

(***************************************************************************)
(* The driver main().                                                      *)
(***************************************************************************)
\* paths are sequences of components below script_dir
iconset_dir == <<"AppIcon.iconset">>
resources_dir == <<"NotToday", "Sources", "NotToday", "Resources">>

\* os.path.join(directory, filename)
path_join(d, filename) == Append(d, filename)

\* the non-empty prefixes of a path: the directory and its ancestors
Prefixes(p) == {SubSeq(p, 1, k) : k \in 1..Len(p)}

\* os.makedirs(path, exist_ok=True): creates the directory and the missing
\* ancestors; an existing directory is not an error
makedirs(ds, p) == ds \cup Prefixes(p)

\* the exception os.makedirs(path, exist_ok=...) raises for the directories ds,
\* "none" when it raises none on their account
makedirs_exist_not_ok(ds, p, exist_ok) ==
    IF p \in ds THEN "FileExistsError" ELSE "none"
makedirs_error(ds, p, exist_ok) ==
    IF p \in ds /\ ~exist_ok THEN "FileExistsError" ELSE "none"

\* f'icon_{base_size}x{base_size}.png' or f'..@{scale}x.png'
AppFilenameAlwaysSuffix(base_size, scale) ==
    "icon_" \o ToString(base_size) \o "x" \o ToString(base_size)
            \o "@" \o ToString(scale) \o "x.png"
AppFilenameByActualSize(base_size, scale) ==
    "icon_" \o ToString(base_size * scale) \o "x" \o ToString(base_size * scale) \o ".png"
AppFilename(base_size, scale) ==
    IF scale = 1
    THEN "icon_" \o ToString(base_size) \o "x" \o ToString(base_size) \o ".png"
    ELSE "icon_" \o ToString(base_size) \o "x" \o ToString(base_size)
                 \o "@" \o ToString(scale) \o "x.png"

MenubarFilename(base_size, scale) ==
    IF scale = 1
    THEN "menubar_icon_" \o ToString(base_size) \o "x" \o ToString(base_size) \o ".png"
    ELSE "menubar_icon_" \o ToString(base_size) \o "x" \o ToString(base_size)
                         \o "@" \o ToString(scale) \o "x.png"

\* f"  Created {filename} ({actual_size}x{actual_size})"
CreatedLine(filename, actual_size) ==
    "  Created " \o filename \o " (" \o ToString(actual_size) \o "x"
                 \o ToString(actual_size) \o ")"

DoneLine == "\nDone! Now run 'iconutil -c icns AppIcon.iconset' to create the .icns file"

\* img.save(filepath, 'PNG'): creates or replaces the file
save(fs, filepath, image) ==
    [p \in DOMAIN fs \cup {filepath} |->
        IF p = filepath THEN <<image.w, image.h>> ELSE fs[p]]

\* a save that failed part-way may leave a truncated file without a bitmap
truncated(fs, filepath) ==
    [p \in DOMAIN fs \cup {filepath} |-> IF p = filepath THEN <<0, 0>> ELSE fs[p]]

\* where control goes when the I/O operation at position p raises: main() has
\* no try/except, so the exception leaves main() and the process ends
RaiseSwallowed(p) == p
Raise(p) == "aborted"

\* the directories, prefix-closed, that may exist before the first run
InitialDirs ==
    {ds \in SUBSET (Prefixes(iconset_dir) \cup Prefixes(resources_dir)) :
        \A d \in ds : Prefixes(d) \subseteq ds}

DriverIdle ==
    /\ pc = "idle" /\ i = 0 /\ dirs = {} /\ files = <<>> /\ written = <<>>
    /\ out = <<>> /\ err = "none" /\ run = 0 /\ prev = <<>>

RenderIdle ==
    /\ fn = "none" /\ size = 0 /\ is_template = FALSE /\ px = 0 /\ py = 0
    /\ pixel = TRANSPARENT /\ img = NewImage(0, 0) /\ rpc = "idle"
    /\ stroke_width = 0 /\ cap_radius = 0 /\ point = 0

Init ==
    /\ pc = "makedirs_iconset"
    /\ i = 0
    /\ dirs \in InitialDirs
    /\ files = <<>>
    /\ written = <<>>
    /\ out = <<>>
    /\ err = "none"
    /\ run = 1
    /\ prev = <<>>
    /\ RenderIdle

\* line 165
MakeIconsetDir ==
    /\ pc = "makedirs_iconset"
    /\ LET e == makedirs_error(dirs, iconset_dir, TRUE)
       IN  IF e = "none"
           THEN /\ dirs' = makedirs(dirs, iconset_dir)
                /\ pc' = "makedirs_resources"
                /\ err' = err
           ELSE /\ dirs' = dirs
                /\ pc' = Raise(pc)
                /\ err' = e
    /\ UNCHANGED <<i, files, written, out, run, prev>>
    /\ UNCHANGED renderVars

\* lines 166-168
MakeResourcesDir ==
    /\ pc = "makedirs_resources"
    /\ LET e == makedirs_error(dirs, resources_dir, TRUE)
       IN  IF e = "none"
           THEN /\ dirs' = makedirs(dirs, resources_dir)
                /\ pc' = "app_loop"
                /\ i' = 1
                /\ out' = Append(out, "Generating app icons...")
                /\ err' = err
           ELSE /\ dirs' = dirs
                /\ pc' = Raise(pc)
                /\ err' = e
                /\ UNCHANGED <<i, out>>
    /\ UNCHANGED <<files, written, run, prev>>
    /\ UNCHANGED renderVars

\* lines 171-184: one iteration of the app-icon loop
SaveAppIcon ==
    /\ pc = "app_loop"
    /\ i \in 1..Len(ICON_SIZES)
    /\ iconset_dir \in dirs
    /\ LET base_size == ICON_SIZES[i][1]
           scale == ICON_SIZES[i][2]
           actual_size == base_size * scale
           image == create_app_icon(actual_size)
           filename == AppFilename(base_size, scale)
           filepath == path_join(iconset_dir, filename)
           line == CreatedLine(filename, actual_size)
       IN  /\ files' = save(files, filepath, image)
           /\ written' = Append(written, filepath)
           /\ IF i < Len(ICON_SIZES)
              THEN /\ i' = i + 1
                   /\ pc' = pc
                   /\ out' = Append(out, line)
              ELSE /\ i' = 1
                   /\ pc' = "menubar_loop"
                   /\ out' = out \o <<line, "\nGenerating menu bar icons...">>
    /\ UNCHANGED <<dirs, err, run, prev>>
    /\ UNCHANGED renderVars

\* lines 187-200: one iteration of the menu-bar loop
SaveMenubarIcon ==
    /\ pc = "menubar_loop"
    /\ i \in 1..Len(MENUBAR_SIZES)
    /\ resources_dir \in dirs
    /\ LET base_size == MENUBAR_SIZES[i][1]
           scale == MENUBAR_SIZES[i][2]
           actual_size == base_size * scale
           image == create_menubar_icon(actual_size)
           filename == MenubarFilename(base_size, scale)
           filepath == path_join(resources_dir, filename)
           line == CreatedLine(filename, actual_size)
       IN  /\ files' = save(files, filepath, image)
           /\ written' = Append(written, filepath)
           /\ IF i < Len(MENUBAR_SIZES)
              THEN /\ i' = i + 1
                   /\ pc' = pc
                   /\ out' = Append(out, line)
              ELSE /\ i' = 0
                   /\ pc' = "done"
                   /\ out' = out \o <<line, DoneLine>>
    /\ UNCHANGED <<dirs, err, run, prev>>
    /\ UNCHANGED renderVars

\* os.makedirs raises (a read-only parent, a file in the way, ...)
MakedirsFails ==
    /\ pc \in {"makedirs_iconset", "makedirs_resources"}
    /\ err' = "OSError"
    /\ pc' = Raise(pc)
    /\ UNCHANGED <<i, dirs, files, written, out, run, prev>>
    /\ UNCHANGED renderVars

\* img.save raises (an unwritable directory, a full disk, ...)
SaveFails ==
    /\ pc \in {"app_loop", "menubar_loop"}
    /\ err' = "OSError"
    /\ pc' = Raise(pc)
    /\ LET entry == IF pc = "app_loop" THEN ICON_SIZES[i] ELSE MENUBAR_SIZES[i]
           filepath == IF pc = "app_loop"
                       THEN path_join(iconset_dir, AppFilename(entry[1], entry[2]))
                       ELSE path_join(resources_dir, MenubarFilename(entry[1], entry[2]))
       IN  \E partial \in BOOLEAN :
               files' = IF partial THEN truncated(files, filepath) ELSE files
    /\ UNCHANGED <<i, dirs, written, out, run, prev>>
    /\ UNCHANGED renderVars

\* line 204, again: the script is run once more after a run that succeeded
RunAgain ==
    /\ pc = "done"
    /\ run < MaxRuns
    /\ run' = run + 1
    /\ pc' = "makedirs_iconset"
    /\ written' = <<>>
    /\ out' = <<>>
    /\ prev' = <<dirs, files>>
    /\ UNCHANGED <<i, dirs, files, err>>
    /\ UNCHANGED renderVars

Next ==
    \/ MakeIconsetDir
    \/ MakeResourcesDir
    \/ SaveAppIcon
    \/ SaveMenubarIcon
    \/ MakedirsFails
    \/ SaveFails
    \/ RunAgain

Spec == Init /\ [][Next]_vars

(***************************************************************************)
(* ImageDraw primitives, on one pixel.  ImageDraw converts every           *)
(* coordinate it is given to an integer pixel index by truncation, and     *)
(* writes its ink over the pixels it covers without blending.              *)
(***************************************************************************)
\* the whole box, as draw.rectangle would fill it
InBox(x, y, x0, y0, x1, y1) == x0 <= x /\ x <= x1 /\ y0 <= y /\ y <= y1

\* draw.ellipse([x0, y0, x1, y1], fill): the ellipse inscribed in the box;
\* every box of this program is square, so it is the disc of diameter
\* x1 - x0 around the middle of the box
InEllipse(x, y, x0, y0, x1, y1) ==
    /\ x0 <= x /\ x <= x1
    /\ y0 <= y /\ y <= y1
    /\ (2 * x - x0 - x1) * (2 * x - x0 - x1) + (2 * y - y0 - y1) * (2 * y - y0 - y1)
           <= (x1 - x0) * (x1 - x0)

\* draw.line([(ax, ay), (bx, by)], fill, width): the flat-capped stroke, the
\* points that project onto the segment and lie within width/2 of its line
InLine(x, y, ax, ay, bx, by, width) ==
    LET dx == bx - ax
        dy == by - ay
        len2 == dx * dx + dy * dy
        dot == (x - ax) * dx + (y - ay) * dy
        cross == (x - ax) * dy - (y - ay) * dx
    IN  IF len2 = 0
        THEN x = ax /\ y = ay
        ELSE /\ 0 <= dot /\ dot <= len2
             /\ cross * cross <= (width * width * len2) \div 4

\* the value of a pixel after a drawing call that covers it or not: the ink
\* replaces the pixel, alpha included (PaintBlended composites it instead)
PaintBlended(old, covered, fill) ==
    IF covered /\ Ink(fill)[4] = 255 THEN Ink(fill) ELSE old
Paint(old, covered, fill) == IF covered THEN Ink(fill) ELSE old

(***************************************************************************)
(* create_app_icon(size), followed on the pixel (px, py).                  *)
(***************************************************************************)
\* int(k * scale) with scale = size / 100: the pixel index ImageDraw makes of
\* the coordinate k * scale (the float product truncates to this integer for
\* every size up to 57 and for every size main() passes)
Coord(k, s) == (k * s) \div 100

\* line 62: max(1, int(8 * scale))
StrokeWidthRounded(s) == Max(1, (8 * s + 50) \div 100)
StrokeWidth(s) == Max(1, (8 * s) \div 100)

\* lines 87 and 145: stroke_width // 2
CapRadiusCeil(w) == (w + 1) \div 2
CapRadius(w) == w \div 2

\* line 88: [(x, y1), (left_x, arrow_y), (right_x, arrow_y), (tip_x, tip_y)],
\* in units of the 100x100 viewBox
AppPoints == << <<50, 20>>, <<35, 40>>, <<65, 40>>, <<50, 55>> >>

\* the sizes main() passes to create_app_icon (line 172)
ActualSizes == {ICON_SIZES[k][1] * ICON_SIZES[k][2] : k \in DOMAIN ICON_SIZES}

AppSizes == (1..MaxSize) \cup {s \in ActualSizes : s <= MaxActualSize}

InitAppIcon ==
    /\ DriverIdle
    /\ fn = "app"
    /\ size \in AppSizes
    /\ is_template = FALSE
    /\ px \in 0..(size - 1)
    /\ py \in 0..(size - 1)
    /\ pixel = TRANSPARENT
    /\ img = NewImage(size, size)
    /\ rpc = "ellipse"
    /\ stroke_width = 0
    /\ cap_radius = 0
    /\ point = 0

\* lines 49-74: the red disc, then the stroke width and the arrow's points
AppDrawCircle ==
    /\ fn = "app" /\ rpc = "ellipse"
    /\ pixel' = Paint(pixel,
                      InEllipse(px, py, Coord(2, size), Coord(2, size),
                                Coord(98, size), Coord(98, size)),
                      hex_to_rgb(RED))
    /\ stroke_width' = StrokeWidth(size)
    /\ rpc' = "vline"
    /\ UNCHANGED <<fn, size, is_template, px, py, img, cap_radius, point>>
    /\ UNCHANGED driverVars

\* line 78
AppDrawVertical ==
    /\ fn = "app" /\ rpc = "vline"
    /\ pixel' = Paint(pixel,
                      InLine(px, py, Coord(50, size), Coord(20, size),
                             Coord(50, size), Coord(55, size), stroke_width),
                      hex_to_rgb(WHITE))
    /\ rpc' = "left"
    /\ UNCHANGED <<fn, size, is_template, px, py, img, stroke_width, cap_radius, point>>
    /\ UNCHANGED driverVars

\* line 81
AppDrawLeft ==
    /\ fn = "app" /\ rpc = "left"
    /\ pixel' = Paint(pixel,
                      InLine(px, py, Coord(35, size), Coord(40, size),
                             Coord(50, size), Coord(55, size), stroke_width),
                      hex_to_rgb(WHITE))
    /\ rpc' = "right"
    /\ UNCHANGED <<fn, size, is_template, px, py, img, stroke_width, cap_radius, point>>
    /\ UNCHANGED driverVars

\* lines 84-87
AppDrawRight ==
    /\ fn = "app" /\ rpc = "right"
    /\ pixel' = Paint(pixel,
                      InLine(px, py, Coord(65, size), Coord(40, size),
                             Coord(50, size), Coord(55, size), stroke_width),
                      hex_to_rgb(WHITE))
    /\ cap_radius' = CapRadius(stroke_width)
    /\ point' = 1
    /\ rpc' = "caps"
    /\ UNCHANGED <<fn, size, is_template, px, py, img, stroke_width>>
    /\ UNCHANGED driverVars

\* lines 88-93: one iteration of the loop over the cap points
AppDrawCap ==
    /\ fn = "app" /\ rpc = "caps"
    /\ point \in 1..Len(AppPoints)
    /\ LET cx == Coord(AppPoints[point][1], size)
           cy == Coord(AppPoints[point][2], size)
       IN  pixel' = Paint(pixel,
                          InEllipse(px, py, cx - cap_radius, cy - cap_radius,
                                    cx + cap_radius, cy + cap_radius),
                          hex_to_rgb(WHITE))
    /\ IF point < Len(AppPoints)
       THEN point' = point + 1 /\ rpc' = rpc
       ELSE point' = 0 /\ rpc' = "return"
    /\ UNCHANGED <<fn, size, is_template, px, py, img, stroke_width, cap_radius>>
    /\ UNCHANGED driverVars

\* line 95
AppReturn ==
    /\ fn = "app" /\ rpc = "return"
    /\ rpc' = "returned"
    /\ UNCHANGED <<fn, size, is_template, px, py, pixel, img, stroke_width, cap_radius, point>>
    /\ UNCHANGED driverVars

NextAppIcon ==
    \/ AppDrawCircle
    \/ AppDrawVertical
    \/ AppDrawLeft
    \/ AppDrawRight
    \/ AppDrawCap
    \/ AppReturn

SpecAppIcon == InitAppIcon /\ [][NextAppIcon]_vars

(***************************************************************************)
(* create_menubar_icon(target_size, is_template), followed on the pixel    *)
(* (px, py) of the 256x256 canvas.                                         *)
(***************************************************************************)
center == 128
circle_radius == 110
inner_radius == 85
menubar_stroke_width == 28
menubar_y1 == 55
menubar_y2 == 155
left_x == 75
right_x == 181
arrow_y == 110
tip_y == 165

\* line 106
color(template) == IF template THEN hex_to_rgb(BLACK) ELSE hex_to_rgb(RED)

\* line 146: [(x, y1), (left_x, arrow_y), (right_x, arrow_y), (center, tip_y)]
MenubarPoints ==
    << <<center, menubar_y1>>, <<left_x, arrow_y>>, <<right_x, arrow_y>>, <<center, tip_y>> >>

\* the sizes main() passes to create_menubar_icon (line 188)
MenubarTargets == {MENUBAR_SIZES[k][1] * MENUBAR_SIZES[k][2] : k \in DOMAIN MENUBAR_SIZES}

SampledCoords == {c \in 0..(render_size - 1) : (c - center) % PixelStride = 0}

InitMenubar ==
    /\ DriverIdle
    /\ fn = "menubar"
    /\ size \in MenubarTargets
    /\ is_template \in BOOLEAN
    /\ px \in SampledCoords
    /\ py \in SampledCoords
    /\ pixel = TRANSPARENT
    /\ img = NewImage(render_size, render_size)
    /\ rpc = "ellipse"
    /\ stroke_width = 0
    /\ cap_radius = 0
    /\ point = 0

\* lines 106-117: the filled disc
MenubarDrawCircle ==
    /\ fn = "menubar" /\ rpc = "ellipse"
    /\ pixel' = Paint(pixel,
                      InEllipse(px, py, center - circle_radius, center - circle_radius,
                                center + circle_radius, center + circle_radius),
                      color(is_template))
    /\ rpc' = "hole"
    /\ UNCHANGED <<fn, size, is_template, px, py, img, stroke_width, cap_radius, point>>
    /\ UNCHANGED driverVars

\* lines 120-128: the transparent hole
MenubarCutHole ==
    /\ fn = "menubar" /\ rpc = "hole"
    /\ pixel' = Paint(pixel,
                      InEllipse(px, py, center - inner_radius, center - inner_radius,
                                center + inner_radius, center + inner_radius),
                      TRANSPARENT)
    /\ stroke_width' = menubar_stroke_width
    /\ rpc' = "vline"
    /\ UNCHANGED <<fn, size, is_template, px, py, img, cap_radius, point>>
    /\ UNCHANGED driverVars

\* lines 131-134
MenubarDrawVertical ==
    /\ fn = "menubar" /\ rpc = "vline"
    /\ pixel' = Paint(pixel,
                      InLine(px, py, center, menubar_y1, center, menubar_y2, stroke_width),
                      color(is_template))
    /\ rpc' = "left"
    /\ UNCHANGED <<fn, size, is_template, px, py, img, stroke_width, cap_radius, point>>
    /\ UNCHANGED driverVars

\* lines 137-141
MenubarDrawLeft ==
    /\ fn = "menubar" /\ rpc = "left"
    /\ pixel' = Paint(pixel,
                      InLine(px, py, left_x, arrow_y, center, tip_y, stroke_width),
                      color(is_template))
    /\ rpc' = "right"
    /\ UNCHANGED <<fn, size, is_template, px, py, img, stroke_width, cap_radius, point>>
    /\ UNCHANGED driverVars

\* lines 142-145
MenubarDrawRight ==
    /\ fn = "menubar" /\ rpc = "right"
    /\ pixel' = Paint(pixel,
                      InLine(px, py, right_x, arrow_y, center, tip_y, stroke_width),
                      color(is_template))
    /\ cap_radius' = CapRadius(stroke_width)
    /\ point' = 1
    /\ rpc' = "caps"
    /\ UNCHANGED <<fn, size, is_template, px, py, img, stroke_width>>
    /\ UNCHANGED driverVars

\* lines 146-151: one iteration of the loop over the cap points
MenubarDrawCap ==
    /\ fn = "menubar" /\ rpc = "caps"
    /\ point \in 1..Len(MenubarPoints)
    /\ LET cx == MenubarPoints[point][1]
           cy == MenubarPoints[point][2]
       IN  pixel' = Paint(pixel,
                          InEllipse(px, py, cx - cap_radius, cy - cap_radius,
                                    cx + cap_radius, cy + cap_radius),
                          color(is_template))
    /\ IF point < Len(MenubarPoints)
       THEN point' = point + 1 /\ rpc' = rpc
       ELSE point' = 0 /\ rpc' = "resize"
    /\ UNCHANGED <<fn, size, is_template, px, py, img, stroke_width, cap_radius>>
    /\ UNCHANGED driverVars

\* line 154: img is rebound to the resampled image; pixel stays the sample of
\* the canvas that was drawn
MenubarResize ==
    /\ fn = "menubar" /\ rpc = "resize"
    /\ img' = Resize(img, size)
    /\ rpc' = "return"
    /\ UNCHANGED <<fn, size, is_template, px, py, pixel, stroke_width, cap_radius, point>>
    /\ UNCHANGED driverVars

\* line 156
MenubarReturn ==
    /\ fn = "menubar" /\ rpc = "return"
    /\ rpc' = "returned"
    /\ UNCHANGED <<fn, size, is_template, px, py, pixel, img, stroke_width, cap_radius, point>>
    /\ UNCHANGED driverVars

NextMenubar ==
    \/ MenubarDrawCircle
    \/ MenubarCutHole
    \/ MenubarDrawVertical
    \/ MenubarDrawLeft
    \/ MenubarDrawRight
    \/ MenubarDrawCap
    \/ MenubarResize
    \/ MenubarReturn

SpecMenubar == InitMenubar /\ [][NextMenubar]_vars

(***************************************************************************)
(* Properties.                                                             *)
(***************************************************************************)
ExpectedIconNames ==
    {"icon_16x16.png", "icon_16x16@2x.png", "icon_32x32.png", "icon_32x32@2x.png",
     "icon_64x64.png", "icon_64x64@2x.png", "icon_128x128.png", "icon_128x128@2x.png",
     "icon_256x256.png", "icon_256x256@2x.png", "icon_512x512.png", "icon_512x512@2x.png"}

ExpectedMenubarNames ==
    {"menubar_icon_18x18.png", "menubar_icon_18x18@2x.png",
     "menubar_icon_22x22.png", "menubar_icon_22x22@2x.png"}

ExpectedPaths ==
    {<<"AppIcon.iconset", n>> : n \in ExpectedIconNames}
        \cup {<<"NotToday", "Sources", "NotToday", "Resources", n>> : n \in ExpectedMenubarNames}

\* C1: after a run of main() in which nothing failed, the files written are
\* exactly the 12 icon_* names in AppIcon.iconset and the 4 menubar_icon_*
\* names in the resources directory, and no other file exists.
C1_FilesWritten ==
    pc = "done" =>
        /\ Range(written) = ExpectedPaths
        /\ DOMAIN files = ExpectedPaths
        /\ Cardinality({p \in Range(written) : Len(p) = 2}) = 12
        /\ Cardinality({p \in Range(written) : Len(p) = 5}) = 4

C1_Witness == pc = "done" /\ run = 1 /\ Len(written) = 16

\* the pixel size each file name stands for: base x scale
ExpectedPixels ==
    [n \in ExpectedIconNames \cup ExpectedMenubarNames |->
        CASE n = "icon_16x16.png" -> 16 [] n = "icon_16x16@2x.png" -> 32
          [] n = "icon_32x32.png" -> 32 [] n = "icon_32x32@2x.png" -> 64
          [] n = "icon_64x64.png" -> 64 [] n = "icon_64x64@2x.png" -> 128
          [] n = "icon_128x128.png" -> 128 [] n = "icon_128x128@2x.png" -> 256
          [] n = "icon_256x256.png" -> 256 [] n = "icon_256x256@2x.png" -> 512
          [] n = "icon_512x512.png" -> 512 [] n = "icon_512x512@2x.png" -> 1024
          [] n = "menubar_icon_18x18.png" -> 18 [] n = "menubar_icon_18x18@2x.png" -> 36
          [] n = "menubar_icon_22x22.png" -> 22 [] n = "menubar_icon_22x22@2x.png" -> 44]

\* C2: every bitmap main() has saved is square with side base x scale of the
\* entry its file name stands for, the menu-bar ones too although they are
\* drawn on the 256x256 canvas.
C2_SavedDimensions ==
    \A k \in 1..Len(written) :
        LET p == written[k]
            n == p[Len(p)]
        IN  /\ n \in DOMAIN ExpectedPixels
            /\ p \in DOMAIN files
            /\ files[p] = <<ExpectedPixels[n], ExpectedPixels[n]>>

C2_Witness ==
    /\ Len(written) = 16
    /\ files[<<"NotToday", "Sources", "NotToday", "Resources", "menubar_icon_18x18@2x.png">>]
           = <<36, 36>>

\* C3: a failing makedirs or save ends main() at that step: the exception
\* leaves main(), nothing is retried or written afterwards, the files
\* written before stay as they are, and the Done line is never printed.
C3_FailureAborts ==
    /\ [](pc = "aborted" => err # "none" /\ DoneLine \notin Range(out))
    /\ [][ /\ (err' # "none" /\ err = "none") =>
                /\ pc' = "aborted"
                /\ written' = written /\ out' = out /\ dirs' = dirs /\ i' = i
                /\ \A p \in Range(written) : p \in DOMAIN files' /\ files'[p] = files[p]
           /\ pc = "aborted" =>
                /\ pc' = "aborted"
                /\ files' = files /\ dirs' = dirs /\ written' = written /\ out' = out
         ]_vars

C3_Witness == pc = "aborted" /\ err = "OSError" /\ Len(written) = 13

\* C4: a second run on the filesystem a successful first run left raises no
\* FileExistsError although both directories exist, and ends with the same
\* directories and the same files, each with the same pixel dimensions.
C4_RunTwice ==
    run >= 2 =>
        /\ err # "FileExistsError"
        /\ pc = "done" => <<dirs, files>> = prev

C4_Witness == run = 2 /\ pc = "done" /\ Len(written) = 16 /\ iconset_dir \in prev[1]

\* the drawing calls of create_menubar_icon that come after the hole
AfterVertical == {"left", "right", "caps", "resize", "return", "returned"}

\* the opaque glyph colour, written out
GlyphInk == IF is_template THEN <<0, 0, 0, 255>> ELSE <<220, 53, 69, 255>>

\* C5, as claimed: the pixel at the centre (128, 128) of the canvas is fully
\* transparent once every drawing step has been applied.
C5_CenterTransparent ==
    (fn = "menubar" /\ px = 128 /\ py = 128 /\ rpc \in {"resize", "return", "returned"})
        => pixel[4] = 0

\* C5, amended: the centre pixel is fully transparent right after the hole
\* is punched; the vertical stroke, which runs through the centre, then
\* paints it, and from there on it is opaque and of the glyph colour.
C5_CenterPaintedByStroke ==
    (fn = "menubar" /\ px = 128 /\ py = 128) =>
        /\ rpc = "vline" => pixel = <<0, 0, 0, 0>>
        /\ rpc \in AfterVertical => pixel = GlyphInk

C5_Witness ==
    fn = "menubar" /\ px = 128 /\ py = 128 /\ rpc = "returned" /\ pixel[4] = 255

\* C6, as claimed: the stroke width of create_app_icon is
\* max(1, round(0.08 * size)), 8 * size / 100 rounded to the nearest integer.
C6_StrokeWidthRounded ==
    (fn = "app" /\ rpc # "ellipse") =>
        stroke_width = Max(1, (8 * size + 50) \div 100)

\* C6, amended: the stroke width is max(1, floor(0.08 * size)): it is 1
\* while 8 * size < 100, and otherwise the integer w with
\* w <= 8 * size / 100 < w + 1.
C6_StrokeWidthTruncated ==
    (fn = "app" /\ rpc # "ellipse") =>
        /\ stroke_width >= 1
        /\ 8 * size < 100 => stroke_width = 1
        /\ 8 * size >= 100 =>
               /\ 100 * stroke_width <= 8 * size
               /\ 8 * size < 100 * (stroke_width + 1)

C6_Witness == fn = "app" /\ rpc = "returned" /\ size = 32 /\ stroke_width = 2

\* the pixels holding the four stroke endpoints of create_app_icon
EndpointPixels ==
    {<<(50 * size) \div 100, (20 * size) \div 100>>, <<(35 * size) \div 100, (40 * size) \div 100>>,
     <<(65 * size) \div 100, (40 * size) \div 100>>, <<(50 * size) \div 100, (55 * size) \div 100>>}

\* C9, as claimed: the cap radius is exactly half the stroke width, so that a
\* cap is as wide as its stroke.
C9_CapRadiusExactHalf ==
    (fn = "app" /\ rpc \in {"caps", "return", "returned"}) =>
        2 * cap_radius = stroke_width

\* C9, amended: the cap radius is the stroke width halved and rounded down
\* (stroke_width // 2), which is half the stroke width only when that is
\* even; a white cap is drawn at each of the four endpoints.
C9_CapRadiusFloorHalf ==
    /\ (fn = "app" /\ rpc \in {"caps", "return", "returned"}) =>
           /\ 2 * cap_radius <= stroke_width
           /\ stroke_width <= 2 * cap_radius + 1
    /\ (fn = "app" /\ rpc \in {"return", "returned"} /\ <<px, py>> \in EndpointPixels) =>
           pixel = <<255, 255, 255, 255>>

C9_Witness ==
    /\ fn = "app" /\ rpc = "returned" /\ size = 64
    /\ stroke_width = 5 /\ cap_radius = 2
    /\ <<px, py>> = <<32, 12>>

\* C7: on the canvas of create_menubar_icon every pixel is, after every
\* drawing step, fully transparent or exactly the glyph colour: black
\* (0,0,0) for a template, the red (220,53,69) otherwise.
C7_GlyphColourOnly ==
    fn = "menubar" => (pixel = <<0, 0, 0, 0>> \/ pixel = GlyphInk)

C7_Witness ==
    /\ fn = "menubar" /\ ~is_template /\ rpc = "returned"
    /\ pixel = <<220, 53, 69, 255>> /\ px = 128 /\ py = 30

\* C10: within one run the paths are written in list order, the 12 app icons
\* before the menu-bar icons, each path once, after both directories exist.
ExpectedOrder ==
    << <<"AppIcon.iconset", "icon_16x16.png">>, <<"AppIcon.iconset", "icon_16x16@2x.png">>,
       <<"AppIcon.iconset", "icon_32x32.png">>, <<"AppIcon.iconset", "icon_32x32@2x.png">>,
       <<"AppIcon.iconset", "icon_64x64.png">>, <<"AppIcon.iconset", "icon_64x64@2x.png">>,
       <<"AppIcon.iconset", "icon_128x128.png">>, <<"AppIcon.iconset", "icon_128x128@2x.png">>,
       <<"AppIcon.iconset", "icon_256x256.png">>, <<"AppIcon.iconset", "icon_256x256@2x.png">>,
       <<"AppIcon.iconset", "icon_512x512.png">>, <<"AppIcon.iconset", "icon_512x512@2x.png">>,
       <<"NotToday", "Sources", "NotToday", "Resources", "menubar_icon_18x18.png">>,
       <<"NotToday", "Sources", "NotToday", "Resources", "menubar_icon_18x18@2x.png">>,
       <<"NotToday", "Sources", "NotToday", "Resources", "menubar_icon_22x22.png">>,
       <<"NotToday", "Sources", "NotToday", "Resources", "menubar_icon_22x22@2x.png">> >>

C10_DistinctInOrder ==
    /\ Len(written) <= Len(ExpectedOrder)
    /\ written = SubSeq(ExpectedOrder, 1, Len(written))
    /\ \A j, k \in 1..Len(written) : j # k => written[j] # written[k]
    /\ Len(written) > 0 =>
           {<<"AppIcon.iconset">>, <<"NotToday", "Sources", "NotToday", "Resources">>} \subseteq dirs
    /\ pc = "done" => Len(written) = 16

C10_Witness ==
    /\ pc = "menubar_loop" /\ Len(written) = 13
    /\ files[written[2]] = files[written[3]]

\* |c - size/2| for the nearest and for the farthest point c of the pixel
\* column (or row) [v, v+1], in tenths of a pixel
NearTenths(v) ==
    LET lo == 10 * v - 5 * size
        hi == lo + 10
    IN  IF lo <= 0 /\ 0 <= hi THEN 0 ELSE Min(IF lo < 0 THEN -lo ELSE lo, IF hi < 0 THEN -hi ELSE hi)

FarTenths(v) ==
    LET lo == 10 * v - 5 * size
        hi == lo + 10
    IN  Max(IF lo < 0 THEN -lo ELSE lo, IF hi < 0 THEN -hi ELSE hi)

\* the circle of radius 0.40 x size around the exact centre (size/2, size/2)
\* passes through the pixel (px, py)
AtDistance40 ==
    /\ NearTenths(px) * NearTenths(px) + NearTenths(py) * NearTenths(py) < 16 * size * size
    /\ 16 * size * size < FarTenths(px) * FarTenths(px) + FarTenths(py) * FarTenths(py)

IsCorner == px \in {0, size - 1} /\ py \in {0, size - 1}

====
